---- MODULE Spec2Model ----
(***************************************************************************)
(* A model of gcode.py (class GCodeChecker): analyze_file and the checks   *)
(* it runs per line, the cross-file subprogram resolver and the post-pass  *)
(* validation.  Text is a sequence of one-character strings; a decimal     *)
(* number is kept as an integer number of 1/Scale units.                   *)
(***************************************************************************)
EXTENDS Integers, Sequences, FiniteSets, TLC

VARIABLES fs, stack

vars == <<fs, stack>>

(***************************************************************************)
(* Bounds of the model.                                                    *)
(***************************************************************************)
\* longest single-file input, in words and line breaks
MaxTokens == 3
\* longest main file of a multi-file input, in lines
MaxProgLines == 2
\* nesting depth of analyze_file at which the interpreter raises RecursionError
RecLimit == 4

(***************************************************************************)
(* Characters and strings.                                                 *)
(***************************************************************************)
Scale == 100

LowerCase == <<"a","b","c","d","e","f","g","h","i","j","k","l","m",
               "n","o","p","q","r","s","t","u","v","w","x","y","z">>

UpperCase == <<"A","B","C","D","E","F","G","H","I","J","K","L","M",
               "N","O","P","Q","R","S","T","U","V","W","X","Y","Z">>

DigitChars == <<"0","1","2","3","4","5","6","7","8","9">>

IsDigit(c) == \E i \in 1..10 : DigitChars[i] = c

DigitVal(c) == (CHOOSE i \in 1..10 : DigitChars[i] = c) - 1

UpperChar(c) ==
    IF \E i \in 1..26 : LowerCase[i] = c
    THEN UpperCase[CHOOSE i \in 1..26 : LowerCase[i] = c]
    ELSE c

LowerChar(c) ==
    IF \E i \in 1..26 : UpperCase[i] = c
    THEN LowerCase[CHOOSE i \in 1..26 : UpperCase[i] = c]
    ELSE c

\* str.upper()
Upper(s) == [i \in 1..Len(s) |-> UpperChar(s[i])]

\* str.lower()
Lower(s) == [i \in 1..Len(s) |-> LowerChar(s[i])]

IsSpace(c) == c = " " \/ c = "\n"

\* str.strip()
Strip(s) ==
    IF \A i \in 1..Len(s) : IsSpace(s[i])
    THEN <<>>
    ELSE LET a == CHOOSE i \in 1..Len(s) :
                     ~IsSpace(s[i]) /\ \A j \in 1..(i-1) : IsSpace(s[j])
             b == CHOOSE i \in 1..Len(s) :
                     ~IsSpace(s[i]) /\ \A j \in (i+1)..Len(s) : IsSpace(s[j])
         IN  SubSeq(s, a, b)

\* c in s
HasChar(s, c) == \E i \in 1..Len(s) : s[i] = c

\* sub in s
Contains(s, sub) ==
    \E i \in 1..(Len(s) - Len(sub) + 1) : SubSeq(s, i, i + Len(sub) - 1) = sub

\* s.startswith(c) for a one-character c
StartsWith(s, c) == Len(s) > 0 /\ s[1] = c

\* x in list
InSeq(q, x) == \E i \in 1..Len(q) : q[i] = x

\* the index of the last character of the digit run that starts at s[i]
\* (i - 1 when s[i] is no digit)
RECURSIVE DigitRunEnd(_, _)
DigitRunEnd(s, i) ==
    IF i <= Len(s) /\ IsDigit(s[i]) THEN DigitRunEnd(s, i + 1) ELSE i - 1

\* int() of a run of digits
RECURSIVE DigitsVal(_)
DigitsVal(d) ==
    IF d = <<>> THEN 0
    ELSE 10 * DigitsVal(SubSeq(d, 1, Len(d) - 1)) + DigitVal(d[Len(d)])

\* the fractional digits e of a decimal, in 1/Scale units
RECURSIVE FracVal(_, _)
FracVal(e, unit) ==
    IF e = <<>> \/ unit = 0 THEN 0
    ELSE DigitVal(e[1]) * unit + FracVal(Tail(e), unit \div 10)

\* the position after an optional sign at s[i]
SignEnd(s, i, signed) ==
    IF signed /\ i <= Len(s) /\ (s[i] = "+" \/ s[i] = "-") THEN i + 1 ELSE i

\* the end of the fraction after the digit run ending at d (d when there is
\* no dot there)
FracEnd(s, d) ==
    IF d + 1 <= Len(s) /\ s[d + 1] = "." THEN DigitRunEnd(s, d + 2) ELSE d

\* \d*\.?\d+ from j, its digit run ending at d and its fraction at e: the
\* dot is taken only when a digit follows it
NumberEndPick(j, d, e) ==
    IF e >= d + 2 THEN e
    ELSE IF d >= j THEN d
    ELSE 0

NumberEndDigits(s, j, d) == NumberEndPick(j, d, FracEnd(s, d))

NumberEndUnsigned(s, j) == NumberEndDigits(s, j, DigitRunEnd(s, j))

\* The end of the match of [+-]?\d*\.?\d+ (or of \d*\.?\d+ when ~signed)
\* anchored at s[i]; 0 when there is none.
NumberEnd(s, i, signed) == NumberEndUnsigned(s, SignEnd(s, i, signed))

\* the text without its sign
Unsigned(t) ==
    IF Len(t) > 0 /\ (t[1] = "+" \/ t[1] = "-") THEN Tail(t) ELSE t

\* the value of digits, a dot and digits, the integer digits ending at d
MagnitudeAt(u, d) ==
    DigitsVal(SubSeq(u, 1, d)) * Scale
    + FracVal(IF d + 1 <= Len(u) THEN SubSeq(u, d + 2, Len(u)) ELSE <<>>, Scale \div 10)

Magnitude(u) == MagnitudeAt(u, DigitRunEnd(u, 1))

\* float() of a text matched by the pattern above
Float(t) ==
    IF Len(t) > 0 /\ t[1] = "-" THEN 0 - Magnitude(Unsigned(t))
    ELSE Magnitude(Unsigned(t))

\* the least member of a set of positions, 0 when it is empty
Leftmost(hits) ==
    IF hits = {} THEN 0 ELSE CHOOSE h \in hits : \A k \in hits : h <= k

NumberGroup(s, i, signed) ==
    IF i = 0 THEN <<>> ELSE <<SubSeq(s, i + 1, NumberEnd(s, i + 1, signed))>>

\* re.search(letter + number pattern, s): <<group(1)>> of the leftmost match,
\* <<>> for None
SearchNumber(s, letter, signed) ==
    NumberGroup(s, Leftmost({i \in 1..Len(s) :
                                s[i] = letter /\ NumberEnd(s, i + 1, signed) # 0}),
                signed)

DigitsGroup(s, i) ==
    IF i = 0 THEN <<>> ELSE <<SubSeq(s, i + 1, DigitRunEnd(s, i + 1))>>

\* re.search(letter + (\d+), s): <<group(1)>> of the leftmost match
SearchDigits(s, letter) ==
    DigitsGroup(s, Leftmost({i \in 1..Len(s) :
                                s[i] = letter /\ DigitRunEnd(s, i + 1) >= i + 1}))

\* re.match(^[letters]\d+, s)
MatchLetterDigits(s, letters) ==
    Len(s) >= 2 /\ s[1] \in letters /\ IsDigit(s[2])

Abs(v) == IF v < 0 THEN 0 - v ELSE v

(***************************************************************************)
(* Diagnostics.  A message is its kind, the text and number it formats and *)
(* the file-origin prefixes put in front of it, outermost first:           *)
(* "Subprogram a: Subprogram b: m" has prefix <<a, b>>.                    *)
(***************************************************************************)
Msg(kind, text, num) == [kind |-> kind, prefix |-> <<>>, text |-> text, num |-> num]

\* the file name put behind the prefixes already there
Prefixed_innermost(name, m) == [m EXCEPT !.prefix = @ \o <<name>>]

\* f"Subprogram {name}: {message}"
Prefixed(name, m) == [m EXCEPT !.prefix = <<name>> \o @]

MaxTravel == 1000

HighFeed == 10000

Axes == <<"X", "Y", "Z">>

SupportedExtensions == {<<".","n","c">>, <<".","t","x","t">>,
                        <<".","g","c","o","d","e">>, <<".","c","n","c">>}

(***************************************************************************)
(* The checker object.                                                     *)
(***************************************************************************)
\* GCodeChecker.__init__
NewChecker ==
    [x_positions |-> <<>>, y_positions |-> <<>>, z_positions |-> <<>>,
     current_x |-> 0, current_y |-> 0, current_z |-> 0,
     errors |-> <<>>, warnings |-> <<>>, commands |-> <<>>,
     main_programs |-> <<>>, program_calls |-> <<>>]

\* float(match.group(1)) if match, else None
FloatOf(m) == IF m # <<>> THEN <<Float(m[1])>> ELSE <<>>

\* parse_coordinate with a pattern that takes no sign
parse_coordinate_unsigned(line, axis) == FloatOf(SearchNumber(Upper(line), axis, FALSE))

\* parse_coordinate: <<value>> or <<>> for None
parse_coordinate(line, axis) == FloatOf(SearchNumber(Upper(line), axis, TRUE))

\* the O<digits> start of check_program_structure
RegisterProgram(programs, line_upper, o) ==
    IF MatchLetterDigits(line_upper, {"O"}) /\ ~InSeq(programs, o[1])
    THEN Append(programs, o[1])
    ELSE programs

\* the M98 P<digits> call of check_program_structure
RegisterCall(calls, line_upper, p) ==
    IF Contains(line_upper, <<"M","9","8">>) /\ HasChar(line_upper, "P") /\ p # <<>>
    THEN Append(calls, p[1])
    ELSE calls

StructureOf(c, line_upper) ==
    [c EXCEPT !.main_programs = RegisterProgram(@, line_upper, SearchDigits(line_upper, "O")),
              !.program_calls = RegisterCall(@, line_upper, SearchDigits(line_upper, "P"))]

\* check_program_structure: the O<digits> start and the M98 P<digits> call;
\* the %, M99 and M30/M02 branches return without an effect
check_program_structure(c, line) == StructureOf(c, Strip(Upper(line)))

\* the 'valid G-code command' test of check_syntax
CommandFormat(c, line) ==
    IF ~MatchLetterDigits(line, {"G", "M"})
       /\ ~(line[1] \in {"X","Y","Z","I","J","K","R"})
       /\ ~StartsWith(line, "F") /\ ~StartsWith(line, "S")
       /\ ~StartsWith(line, "T") /\ ~StartsWith(line, "N")
       /\ ~MatchLetterDigits(line, {"O", "P"})
    THEN [c EXCEPT !.errors = Append(@, Msg("Invalid command format", line, 0))]
    ELSE c

SyntaxOf(c, line) ==
    IF line = <<>> \/ StartsWith(line, ";") \/ StartsWith(line, "(")
    THEN c
    ELSE CommandFormat(check_program_structure(c, line), line)

\* check_syntax
check_syntax(c, rawline) == SyntaxOf(c, Upper(Strip(rawline)))

TravelWarning(axis, v) ==
    IF Abs(v) > MaxTravel * Scale
    THEN <<Msg("exceeds typical travel range", <<axis>>, v)>>
    ELSE <<>>

\* the travel-range warnings of check_coordinates, X then Y then Z
TravelWarnings(x, y, z) ==
    TravelWarning("X", x) \o TravelWarning("Y", y) \o TravelWarning("Z", z)

\* the value parsed for an axis, or the current one
Sticks(m, current) == IF m # <<>> THEN m[1] ELSE current

MoveTo(c, nx, ny, nz) ==
    [c EXCEPT !.current_x = nx, !.current_y = ny, !.current_z = nz,
              !.x_positions = Append(@, nx),
              !.y_positions = Append(@, ny),
              !.z_positions = Append(@, nz),
              !.warnings = @ \o TravelWarnings(nx, ny, nz)]

\* check_coordinates
check_coordinates(c, line) ==
    MoveTo(c, Sticks(parse_coordinate(line, "X"), c.current_x),
              Sticks(parse_coordinate(line, "Y"), c.current_y),
              Sticks(parse_coordinate(line, "Z"), c.current_z))

FeedRate(c, feed_rate) ==
    IF feed_rate > HighFeed * Scale
    THEN [c EXCEPT !.warnings = Append(@, Msg("High feed rate", <<>>, feed_rate))]
    ELSE IF feed_rate <= 0
    THEN [c EXCEPT !.errors = Append(@, Msg("Invalid feed rate", <<>>, feed_rate))]
    ELSE c

FeedMatch(c, m) == IF m # <<>> THEN FeedRate(c, Float(m[1])) ELSE c

\* check_feed_rate
check_feed_rate(c, line) ==
    IF HasChar(Upper(line), "F")
    THEN FeedMatch(c, SearchNumber(Upper(line), "F", FALSE))
    ELSE c

\* the gate of check_coordinates asking for a number after the axis letter
MentionsAxis_value(line) == \E a \in 1..3 : parse_coordinate(line, Axes[a]) # <<>>

\* any(axis in line.upper() for axis in ['X', 'Y', 'Z'])
MentionsAxis(line) == \E a \in 1..3 : HasChar(Upper(line), Axes[a])

Coordinates(c, line) == IF MentionsAxis(line) THEN check_coordinates(c, line) ELSE c

\* the body of the loop of analyze_file for one non-blank line
analyze_line(c, line_num, line) ==
    check_feed_rate(
        Coordinates(check_syntax([c EXCEPT !.commands = Append(@, <<line_num, line>>)],
                                 line),
                    line),
        line)

\* check_file_format: os.path.splitext(filename.lower())[1]
Extension(filename) ==
    LET n    == Lower(filename)
        dots == {i \in 2..Len(n) : n[i] = "." /\ n[i-1] # "/"}
    IN  IF dots = {} \/ \E i \in 1..Len(n) : n[i] = "/" /\ \A d \in dots : d < i
        THEN <<>>
        ELSE SubSeq(n, CHOOSE d \in dots : \A k \in dots : k <= d, Len(n))

check_file_format(c, filename) ==
    IF Extension(filename) \notin SupportedExtensions
    THEN [c EXCEPT !.warnings =
             Append(@, Msg("may not be standard G-code format", Extension(filename), 0))]
    ELSE c

\* validate_program_structure
RECURSIVE UndefinedCalls(_, _)
UndefinedCalls(calls, programs) ==
    IF calls = <<>> THEN <<>>
    ELSE (IF ~InSeq(programs, Head(calls))
          THEN <<Msg("called but not defined", Head(calls), 0)>> ELSE <<>>)
         \o UndefinedCalls(Tail(calls), programs)

RECURSIVE UnusedPrograms(_, _)
UnusedPrograms(programs, calls) ==
    IF programs = <<>> THEN <<>>
    ELSE (IF ~InSeq(calls, Head(programs))
          THEN <<Msg("defined but never called", Head(programs), 0)>> ELSE <<>>)
         \o UnusedPrograms(Tail(programs), calls)

validate_program_structure(c) ==
    [c EXCEPT !.warnings =
        @ \o UndefinedCalls(c.program_calls, c.main_programs)
          \o (IF Len(c.main_programs) > 1
              THEN UnusedPrograms(Tail(c.main_programs), c.program_calls)
              ELSE <<>>)]

(***************************************************************************)
(* Files.  A file's content is a sequence of words and line breaks; a word *)
(* records its text and, for the properties, the letter it starts with and *)
(* the number written after it (ok is FALSE when no number is written).    *)
(* The text of the file joins the words of a line with blanks.             *)
(***************************************************************************)
Word(txt, letter, ok, val) == [txt |-> txt, letter |-> letter, ok |-> ok, val |-> val]

NL == Word(<<"\n">>, "NL", FALSE, 0)

RECURSIVE Render(_)
Render(t) ==
    IF t = <<>> THEN <<>>
    ELSE t[1].txt
         \o (IF Len(t) > 1 /\ t[1] # NL /\ t[2] # NL THEN <<" ">> ELSE <<>>)
         \o Render(Tail(t))

\* str.splitlines()/file.readlines(): the segments between separators, a
\* final empty segment dropped
RECURSIVE Split(_, _)
Split(s, sep) ==
    IF s = <<>> THEN <<>>
    ELSE IF \A i \in 1..Len(s) : s[i] # sep THEN <<s>>
    ELSE LET i == CHOOSE k \in 1..Len(s) : s[k] = sep /\ \A j \in 1..(k-1) : s[j] # sep
         IN  <<SubSeq(s, 1, i - 1)>> \o Split(SubSeq(s, i + 1, Len(s)), sep)

\* os.path.basename, os.path.dirname, os.path.join
Slashes(path) == {i \in 1..Len(path) : path[i] = "/"}

LastSlash(path) == CHOOSE i \in Slashes(path) : \A k \in Slashes(path) : k <= i

Basename(path) ==
    IF Slashes(path) = {} THEN path ELSE SubSeq(path, LastSlash(path) + 1, Len(path))

Dirname(path) ==
    IF Slashes(path) = {} THEN <<>> ELSE SubSeq(path, 1, LastSlash(path) - 1)

Join(dir, name) == dir \o <<"/">> \o name

\* os.path.exists
Exists(files, path) == Basename(path) \in DOMAIN files

\* open(...).readlines() succeeds
Readable(files, path) == Exists(files, path) /\ files[Basename(path)].readable

ReadLines(files, path) == Split(Render(files[Basename(path)].content), "\n")

\* possible_names of auto_detect_and_analyze_subprograms, in order
PossibleNames(call) ==
    << <<"O">> \o call \o <<".","t","x","t">>,
       <<"O">> \o call \o <<".","n","c">>,
       <<"o">> \o call \o <<".","t","x","t">>,
       <<"o">> \o call \o <<".","n","c">>,
       call \o <<".","t","x","t">>,
       call \o <<".","n","c">> >>

\* main_dir of auto_detect_and_analyze_subprograms
MainDir(main_filename) ==
    IF Dirname(main_filename) = <<>> THEN <<".">> ELSE Dirname(main_filename)

\* the candidates of a call that exist
Found(files, main_filename, call) ==
    {i \in 1..6 : Exists(files, Join(MainDir(main_filename), PossibleNames(call)[i]))}

\* the name the inner loop stops at: the first candidate that exists
FirstFound(files, main_filename, call) ==
    PossibleNames(call)[CHOOSE i \in Found(files, main_filename, call) :
                            \A k \in Found(files, main_filename, call) : i <= k]

(***************************************************************************)
(* One activation of analyze_file: the checker it runs on (self), the file *)
(* name, the lines read, the position in the line loop (idx) and in the    *)
(* loop over program_calls (callIdx), detected_subprograms, and the value  *)
(* returned.  The stack holds the nested activations, the main file's      *)
(* first.                                                                  *)
(***************************************************************************)
NewFrame(filename) ==
    [self |-> NewChecker, filename |-> filename, pc |-> "open", lines |-> <<>>,
     idx |-> 1, callIdx |-> 1, detected |-> <<>>, result |-> FALSE]

Depth == Len(stack)

Top == stack[Depth]

SetTop(f) == [stack EXCEPT ![Depth] = f]

AfterLine(f) == IF f.idx > Len(f.lines) THEN "resolve" ELSE "lines"

\* a resolver that does not mark the call as found
MarkFound_never(c, call) == c

\* the 'Mark as found' step of auto_detect_and_analyze_subprograms
MarkFound(c, call) ==
    IF InSeq(c.program_calls, call)
    THEN [c EXCEPT !.main_programs = Append(@, call)]
    ELSE c

\* a merge that takes the errors and leaves the warnings behind
MergeSubprogram_errors(c, name, sub, call) ==
    MarkFound([c EXCEPT !.errors = @ \o [i \in 1..Len(sub.errors) |->
                                            Prefixed(name, sub.errors[i])]],
              call)

\* the merge of a successfully analyzed subprogram into the caller
MergeSubprogram(c, name, sub, call) ==
    MarkFound([c EXCEPT !.errors   = @ \o [i \in 1..Len(sub.errors) |->
                                              Prefixed(name, sub.errors[i])],
                        !.warnings = @ \o [i \in 1..Len(sub.warnings) |->
                                              Prefixed(name, sub.warnings[i])]],
              call)

\* the detected_subprograms entry of a subprogram
Detected(name, path, sub) ==
    [file |-> name, path |-> path, errors |-> Len(sub.errors),
     warnings |-> Len(sub.warnings), commands |-> Len(sub.commands)]

\* the line loop ends when the lines are exhausted
Advance(f) == [f EXCEPT !.pc = AfterLine(f)]

\* analyze_file: check_file_format, then the file is read
OpenFile ==
    /\ Depth > 0 /\ Top.pc = "open"
    /\ Readable(fs, Top.filename)
    /\ stack' = SetTop(Advance([Top EXCEPT
                                  !.self = check_file_format(@, Top.filename),
                                  !.lines = ReadLines(fs, Top.filename),
                                  !.idx = 1]))
    /\ UNCHANGED fs

\* analyze_file: open() raises; the except branches record it and return False
OpenFail ==
    /\ Depth > 0 /\ Top.pc = "open"
    /\ ~Readable(fs, Top.filename)
    /\ LET c == check_file_format(Top.self, Top.filename)
           m == IF Exists(fs, Top.filename)
                THEN Msg("Error reading file", <<>>, 0)
                ELSE Msg("File not found", Top.filename, 0)
       IN  stack' = SetTop([Top EXCEPT !.self = [c EXCEPT !.errors = Append(@, m)],
                                       !.pc = "done", !.result = FALSE])
    /\ UNCHANGED fs

\* 'if not line: continue', else the body of the loop
LineEffect(c, line_num, line) ==
    IF line = <<>> THEN c ELSE analyze_line(c, line_num, line)

StepLine(f) ==
    [f EXCEPT !.self = LineEffect(@, f.idx, Strip(f.lines[f.idx])), !.idx = @ + 1]

\* analyze_file: one iteration of the loop over the lines
ProcessLine ==
    /\ Depth > 0 /\ Top.pc = "lines"
    /\ stack' = SetTop(Advance(StepLine(Top)))
    /\ UNCHANGED fs

CurrentCall == Top.self.program_calls[Top.callIdx]

Resolving ==
    Depth > 0 /\ Top.pc = "resolve" /\ Top.callIdx <= Len(Top.self.program_calls)

\* auto_detect_and_analyze_subprograms: no candidate of the call exists
SkipCall ==
    /\ Resolving
    /\ Found(fs, Top.filename, CurrentCall) = {}
    /\ stack' = SetTop([Top EXCEPT !.callIdx = @ + 1])
    /\ UNCHANGED fs

\* auto_detect_and_analyze_subprograms: a candidate exists, a fresh checker
\* starts analyze_file on it
CallSubprogram ==
    /\ Resolving
    /\ Found(fs, Top.filename, CurrentCall) # {}
    /\ Depth < RecLimit
    /\ stack' = Append(stack, NewFrame(Join(MainDir(Top.filename),
                                            FirstFound(fs, Top.filename, CurrentCall))))
    /\ UNCHANGED fs

\* the nested call exceeds the interpreter's recursion limit: RecursionError
\* is raised inside the try of analyze_file, which records it and returns False
RecursionFail ==
    /\ Resolving
    /\ Found(fs, Top.filename, CurrentCall) # {}
    /\ Depth >= RecLimit
    /\ stack' = SetTop([Top EXCEPT
                          !.self.errors = Append(@, Msg("Error reading file", <<>>, 1)),
                          !.pc = "done", !.result = FALSE])
    /\ UNCHANGED fs

\* auto_detect_and_analyze_subprograms: the nested analyze_file returned
ReturnSubprogram ==
    /\ Depth > 1 /\ Top.pc = "done"
    /\ LET parent == stack[Depth - 1]
           call   == parent.self.program_calls[parent.callIdx]
           name   == Basename(Top.filename)
           merged == IF Top.result
                     THEN [parent EXCEPT
                             !.self = MergeSubprogram(@, name, Top.self, call),
                             !.detected = Append(@, Detected(name, Top.filename, Top.self))]
                     ELSE parent
       IN  stack' = [SubSeq(stack, 1, Depth - 1) EXCEPT
                        ![Depth - 1] = [merged EXCEPT !.callIdx = @ + 1]]
    /\ UNCHANGED fs

\* analyze_file: validate_program_structure after the resolver, return True
Validate ==
    /\ Depth > 0 /\ Top.pc = "resolve"
    /\ Top.callIdx > Len(Top.self.program_calls)
    /\ stack' = SetTop([Top EXCEPT !.self = validate_program_structure(@),
                                   !.pc = "done", !.result = TRUE])
    /\ UNCHANGED fs

Next ==
    \/ OpenFile
    \/ OpenFail
    \/ ProcessLine
    \/ SkipCall
    \/ CallSubprogram
    \/ RecursionFail
    \/ ReturnSubprogram
    \/ Validate

(***************************************************************************)
(* The inputs: the words of the files.                                     *)
(***************************************************************************)
wX10 == Word(<<"X","1","0">>, "X", TRUE, 1000)

wY5 == Word(<<"Y","5">>, "Y", TRUE, 500)

wX12 == Word(<<"X","1","2">>, "X", TRUE, 1200)

wZneg == Word(<<"z","-","1",".","5">>, "Z", TRUE, -150)

wX == Word(<<"X">>, "X", FALSE, 0)

wSemi == Word(<<";">>, ";", FALSE, 0)

wF0 == Word(<<"F","0">>, "F", TRUE, 0)

wFneg == Word(<<"F","-","5">>, "F", TRUE, -500)

wF15000 == Word(<<"F","1","5","0","0","0">>, "F", TRUE, 1500000)

wF500 == Word(<<"F","5","0","0">>, "F", TRUE, 50000)

wG1 == Word(<<"G","1">>, "G", TRUE, 100)

wParen == Word(<<"(">>, "(", FALSE, 0)

wPercent == Word(<<"%">>, "%", FALSE, 0)

wM99 == Word(<<"M","9","9">>, "M", TRUE, 9900)

wM30 == Word(<<"M","3","0">>, "M", TRUE, 3000)

wO100 == Word(<<"O","1","0","0">>, "O", TRUE, 10000)

wO200 == Word(<<"O","2","0","0">>, "O", TRUE, 20000)

wM98 == Word(<<"M","9","8">>, "M", TRUE, 9800)

wP100 == Word(<<"P","1","0","0">>, "P", TRUE, 10000)

wP200 == Word(<<"P","2","0","0">>, "P", TRUE, 20000)

wP300 == Word(<<"P","3","0","0">>, "P", TRUE, 30000)

wX1 == Word(<<"X","1">>, "X", TRUE, 100)


CoordVocab == {wX10, wY5, wX12, wZneg, wX, wSemi, NL}

FeedVocab == {wF0, wFneg, wF15000, wF500, wG1, wParen, NL}

StructVocab == {wPercent, wM99, wM30, wO100, wM98, wP200, NL}

\* the sequences of at most n members of S
SeqsUpTo(S, n) == UNION {[1..k -> S] : k \in 0..n}

File(content) == [readable |-> TRUE, content |-> content]

Unreadable == [readable |-> FALSE, content |-> <<>>]

nameA == <<"a",".","n","c">>

nameB == <<"b",".","t","a","p">>

nameC == <<"c",".","g","c","o","d","e">>

nameO100 == <<"O","1","0","0",".","n","c">>

nameO200 == <<"O","2","0","0",".","n","c">>

nameO300 == <<"O","3","0","0",".","t","x","t">>

\* one file, every text of at most MaxTokens words over a vocabulary
SingleFile(name, vocab) ==
    {[main |-> name, files |-> (name :> File(t))] : t \in SeqsUpTo(vocab, MaxTokens)}

RECURSIVE JoinLines(_)
JoinLines(ls) ==
    IF ls = <<>> THEN <<>>
    ELSE IF Len(ls) = 1 THEN ls[1]
    ELSE ls[1] \o <<NL>> \o JoinLines(Tail(ls))

\* the lines of the main file of a program with subprograms
MainLines == {<<wO200>>, <<wM98, wP200>>, <<wX10>>}

MainPrograms == {File(JoinLines(ls)) : ls \in SeqsUpTo(MainLines, MaxProgLines)}

\* the subprogram files: O200.nc may call 300 or call the main program
\* back, O300.txt may call 200 back
Sub200Programs ==
    {File(JoinLines(ls)) : ls \in {<<>>, << <<wF0>> >>, << <<wM98, wP300>> >>,
                                   << <<wM98, wP100>> >>,
                                   << <<wF0>>, <<wM98, wP300>> >>}}

Sub300Programs ==
    {File(JoinLines(ls)) : ls \in {<< <<wF0>> >>, << <<wM98, wP200>> >>}}

Absent == [readable |-> FALSE, content |-> <<wSemi>>]

\* a main file O100.nc and the siblings O200.nc and O300.txt, each holding a
\* program, unreadable, or absent
ProgramTrees ==
    {[main |-> nameO100,
      files |-> [n \in ({nameO100} \cup (IF b = Absent THEN {} ELSE {nameO200})
                                   \cup (IF c = Absent THEN {} ELSE {nameO300}))
                 |-> IF n = nameO100 THEN a ELSE IF n = nameO200 THEN b ELSE c]] :
        a \in MainPrograms,
        b \in Sub200Programs \cup {Unreadable, Absent},
        c \in Sub300Programs \cup {Unreadable, Absent}}

\* the sticky-position example: 'X10 Y5' then 'X12'
ExampleSticky ==
    [main |-> nameA, files |-> (nameA :> File(<<wX10, wY5, NL, wX12>>))]

\* the main file of the specification's example, alone and with its subprogram
ExampleMain == File(<<wO100, NL, wM98, wP200, NL, wM30>>)

ExampleSub == File(<<wO200, NL, wG1, wX1, NL, wM99>>)

ExampleAlone == [main |-> nameO100, files |-> (nameO100 :> ExampleMain)]

ExampleWithSub ==
    [main |-> nameO100, files |-> (nameO100 :> ExampleMain) @@ (nameO200 :> ExampleSub)]

\* a main file that does not exist
MissingMain == [main |-> nameA, files |-> (nameB :> Unreadable)]

Inputs ==
    SingleFile(nameA, CoordVocab) \cup SingleFile(nameB, FeedVocab)
    \cup SingleFile(nameC, StructVocab) \cup ProgramTrees
    \cup {ExampleSticky, ExampleAlone, ExampleWithSub, MissingMain}

\* a fresh checker is about to analyze the main file
Init ==
    \E in \in Inputs :
        /\ fs = in.files
        /\ stack = <<NewFrame(in.main)>>

Spec == Init /\ [][Next]_vars

(***************************************************************************)
(* Vocabulary of the properties: what a file says, read off its words.     *)
(***************************************************************************)
\* the words of each line of the file an activation analyzes
WordLines(f) ==
    IF Readable(fs, f.filename) THEN Split(fs[Basename(f.filename)].content, NL)
    ELSE <<>>

\* the number of lines the activation has processed
Processed(f) == f.idx - 1

AxisLetters == {"X", "Y", "Z"}

\* the line writes a number for the axis
Gives(ws, a) == \E i \in 1..Len(ws) : ws[i].letter = a /\ ws[i].ok

\* the number it writes (the leftmost one)
Given(ws, a) ==
    ws[CHOOSE i \in 1..Len(ws) :
          /\ ws[i].letter = a /\ ws[i].ok
          /\ \A j \in 1..(i-1) : ~(ws[j].letter = a /\ ws[j].ok)].val

\* the value of the axis after the first k lines
RECURSIVE Sticky(_, _, _)
Sticky(wl, k, a) ==
    IF k = 0 THEN 0
    ELSE IF Gives(wl[k], a) THEN Given(wl[k], a)
    ELSE Sticky(wl, k - 1, a)

\* the line is blank or a comment
IgnorableLine(line) ==
    Strip(line) = <<>> \/ Strip(line)[1] = ";" \/ Strip(line)[1] = "("

IgnorableWords(ws) == ws = <<>> \/ ws[1].letter \in {";", "("}

Last(q) == q[Len(q)]

\* the members of q after the first n
After(q, n) == SubSeq(q, n + 1, Len(q))

Count(q, x) == Cardinality({i \in 1..Len(q) : q[i] = x})

Frames == {stack[i] : i \in 1..Depth}

\* the top activation is about to process a line
AtLine == Depth > 0 /\ Top.pc = "lines"

\* the top activation has returned to the caller of the main analysis
MainDone == Depth = 1 /\ Top.pc = "done"

\* C1: processing an Ignorable line (blank, or starting with ';' or '(')
\* adds no error and leaves the current position and the position trace as
\* they were, whatever follows the comment starter.
C1_IgnorableNoEffect ==
    [][ (AtLine /\ IgnorableLine(Top.lines[Top.idx])) =>
          /\ Top'.self.errors = Top.self.errors
          /\ Top'.self.current_x = Top.self.current_x
          /\ Top'.self.current_y = Top.self.current_y
          /\ Top'.self.current_z = Top.self.current_z
          /\ Top'.self.x_positions = Top.self.x_positions
          /\ Top'.self.y_positions = Top.self.y_positions
          /\ Top'.self.z_positions = Top.self.z_positions ]_vars

\* C2: after any number of lines, each axis of the current position is the
\* number written for it on the most recent line that wrote one (0 if none
\* did), and the last snapshot of the trace is the current position.
C2_StickyPosition ==
    \A f \in Frames :
        /\ f.self.current_x = Sticky(WordLines(f), Processed(f), "X")
        /\ f.self.current_y = Sticky(WordLines(f), Processed(f), "Y")
        /\ f.self.current_z = Sticky(WordLines(f), Processed(f), "Z")
        /\ f.self.x_positions # <<>> =>
              /\ Last(f.self.x_positions) = f.self.current_x
              /\ Last(f.self.y_positions) = f.self.current_y
              /\ Last(f.self.z_positions) = f.self.current_z

\* the example of C2: 'X10 Y5' then 'X12' has been analyzed and the
\* position is (12, 5, 0)
C2_Witness ==
    /\ MainDone /\ Top.result
    /\ WordLines(Top) = <<(<<wX10, wY5>>), (<<wX12>>)>>
    /\ <<Top.self.current_x, Top.self.current_y, Top.self.current_z>>
          = <<12 * Scale, 5 * Scale, 0>>
    /\ Len(Top.self.x_positions) = 2

\* the lines among the first k that satisfy P
LinesWith(wl, k, P(_)) == {i \in 1..k : P(wl[i])}

WritesAxisValue(ws) == \E a \in AxisLetters : Gives(ws, a)

NamesAxis(ws) == \E i \in 1..Len(ws) : ws[i].letter \in AxisLetters

SameLengths(c) ==
    /\ Len(c.y_positions) = Len(c.x_positions)
    /\ Len(c.z_positions) = Len(c.x_positions)

\* C3 as stated: the trace has one entry per line that writes a number for
\* X, Y or Z; an axis letter without a number counts as not mentioned.
C3_TraceCountsValues ==
    \A f \in Frames :
        /\ SameLengths(f.self)
        /\ Len(f.self.x_positions)
              = Cardinality(LinesWith(WordLines(f), Processed(f), WritesAxisValue))

\* C3 amended: the trace has one entry per line that contains one of the
\* letters X, Y, Z, with or without a number after it.
C3_TraceCountsLetters ==
    \A f \in Frames :
        /\ SameLengths(f.self)
        /\ Len(f.self.x_positions)
              = Cardinality(LinesWith(WordLines(f), Processed(f), NamesAxis))

\* a file with a bare 'X' line has been analyzed and that line has an entry
C3_Witness ==
    /\ MainDone /\ Top.result
    /\ WordLines(Top) = <<(<<wX>>), (<<wY5>>)>>
    /\ Len(Top.self.x_positions) = 2

\* the line is a feed word, alone or after G1
FeedLine(ws) ==
    /\ ws # <<>>
    /\ \A i \in 1..Len(ws) : ws[i].letter \in {"F", "G"}
    /\ Cardinality({i \in 1..Len(ws) : ws[i].letter = "F"}) = 1

FeedOf(ws) == ws[CHOOSE i \in 1..Len(ws) : ws[i].letter = "F"].val

\* C4: a feed value <= 0 (F0, F-5) adds exactly one error 'Invalid feed
\* rate' and no warning; a value above 10000 adds exactly one warning 'High
\* feed rate' and no error; a value in (0, 10000] adds neither.
C4_FeedOutcomes ==
    [][ (AtLine /\ FeedLine(WordLines(Top)[Top.idx])) =>
          LET v  == FeedOf(WordLines(Top)[Top.idx])
              es == After(Top'.self.errors, Len(Top.self.errors))
              ws == After(Top'.self.warnings, Len(Top.self.warnings))
          IN  /\ v <= 0 =>
                   /\ Len(es) = 1 /\ es[1].kind = "Invalid feed rate"
                   /\ ws = <<>>
              /\ v > HighFeed * Scale =>
                   /\ Len(ws) = 1 /\ ws[1].kind = "High feed rate"
                   /\ es = <<>>
              /\ (v > 0 /\ v <= HighFeed * Scale) => (es = <<>> /\ ws = <<>>) ]_vars

\* the digits of a word such as O100 or P200
Digits(w) == After(w.txt, 1)

\* the line starts a program O<n>
StartsProgram(ws, n) ==
    ~IgnorableWords(ws) /\ ws[1].letter = "O" /\ Digits(ws[1]) = n

\* the line calls subprogram <n>: an M98 word and, leftmost of its P words, P<n>
CallsProgram(ws, n) ==
    /\ ~IgnorableWords(ws)
    /\ \E i \in 1..Len(ws) : ws[i].txt = <<"M","9","8">>
    /\ \E i \in 1..Len(ws) :
          /\ ws[i].letter = "P" /\ Digits(ws[i]) = n
          /\ \A j \in 1..(i-1) : ws[j].letter # "P"

DefinedInFile(f, n) == \E i \in 1..Len(WordLines(f)) : StartsProgram(WordLines(f)[i], n)

\* a sibling file of the call was analyzed successfully
ResolvedCall(f, n) ==
    \E i \in 1..Len(f.detected), k \in 1..6 : f.detected[i].file = PossibleNames(n)[k]

NotDefinedWarnings(f, n) ==
    Cardinality({i \in 1..Len(f.self.warnings) :
                    f.self.warnings[i] = Msg("called but not defined", n, 0)})

p100 == <<"1","0","0">>

p200 == <<"2","0","0">>

\* C5: when an analysis has returned True, each entry n of its call
\* registry has its own warning 'Subprogram P<n> called but not defined'
\* exactly when n is neither started by an O<n> line of the file nor
\* resolved to a successfully analyzed sibling; the example main file alone
\* ends with one such warning and registry {100}, and with O200.nc beside
\* it with none and 200 registered.
C5_NotDefinedWarning ==
    /\ \A f \in Frames : (f.pc = "done" /\ f.result) =>
          \A i \in 1..Len(f.self.program_calls) :
             LET n == f.self.program_calls[i]
             IN  NotDefinedWarnings(f, n) =
                    IF DefinedInFile(f, n) \/ ResolvedCall(f, n) THEN 0
                    ELSE Count(f.self.program_calls, n)
    /\ (MainDone /\ fs = ExampleAlone.files) =>
          /\ NotDefinedWarnings(Top, p200) = 1
          /\ Top.self.main_programs = <<p100>>
    /\ (MainDone /\ fs = ExampleWithSub.files) =>
          /\ NotDefinedWarnings(Top, p200) = 0
          /\ InSeq(Top.self.main_programs, p200)

\* the example with its subprogram has been analyzed: the call is resolved
C5_Witness ==
    /\ MainDone /\ fs = ExampleWithSub.files
    /\ Top.result /\ Top.self.program_calls = <<p200>>
    /\ ResolvedCall(Top, p200)

\* C6: no file is being analyzed twice at once, so the nesting of
\* analyze_file is never deeper than the number of distinct files.
C6_NoRevisit ==
    /\ \A i, j \in 1..Depth :
          i # j => Basename(stack[i].filename) # Basename(stack[j].filename)
    /\ Depth <= Cardinality(DOMAIN fs)

NoDuplicates(q) == \A i, j \in 1..Len(q) : i # j => q[i] # q[j]

\* the subprogram a line calls, as a set of at most one number
LineCall(ws) == {n \in {Digits(ws[i]) : i \in 1..Len(ws)} : CallsProgram(ws, n)}

\* the calls the first k lines make, in line order
RECURSIVE CallsOfLines(_, _)
CallsOfLines(wl, k) ==
    IF k = 0 THEN <<>>
    ELSE CallsOfLines(wl, k - 1)
         \o (IF LineCall(wl[k]) = {} THEN <<>>
             ELSE <<CHOOSE n \in LineCall(wl[k]) : TRUE>>)

\* C7: the program registry never holds a number twice, and the call
\* registry holds one entry per M98 P<n> line, in line order.
C7_RegistryIsSet ==
    \A f \in Frames :
        /\ NoDuplicates(f.self.main_programs)
        /\ f.self.program_calls = CallsOfLines(WordLines(f), Processed(f))

\* C8: when a nested analysis returns, the caller's command records,
\* position trace and position are as before; after a success its errors
\* and warnings are extended by exactly the child's, in order, each with the
\* child's file name put in front; after a failure nothing is added and the
\* caller goes on, and an activation that runs the resolver below the
\* recursion limit returns True.
C8_MergeFrame ==
    [][ /\ (Depth > 1 /\ Top.pc = "done") =>
            LET before == stack[Depth - 1].self
                after  == stack'[Depth - 1].self
                child  == Top.self
                name   == Basename(Top.filename)
                tag(q) == [i \in 1..Len(q) |-> [q[i] EXCEPT !.prefix = <<name>> \o @]]
            IN  /\ Len(stack') = Depth - 1
                /\ after.commands = before.commands
                /\ after.x_positions = before.x_positions
                /\ after.y_positions = before.y_positions
                /\ after.z_positions = before.z_positions
                /\ after.current_x = before.current_x
                /\ after.current_y = before.current_y
                /\ after.current_z = before.current_z
                /\ stack'[Depth - 1].pc = "resolve"
                /\ IF Top.result
                   THEN /\ after.errors = before.errors \o tag(child.errors)
                        /\ after.warnings = before.warnings \o tag(child.warnings)
                   ELSE /\ after.errors = before.errors
                        /\ after.warnings = before.warnings
        /\ (Depth > 0 /\ Depth < RecLimit /\ Top.pc = "resolve"
              /\ Len(stack') = Depth /\ Top'.pc = "done") => Top'.result ]_vars

\* a main file with a coordinate line has merged a subprogram's error
C8_Witness ==
    /\ Depth = 1 /\ Top.detected # <<>>
    /\ Top.self.x_positions # <<>>
    /\ \E i \in 1..Len(Top.self.errors) : Top.self.errors[i].prefix # <<>>

StructuralMarker(ws) ==
    /\ ws # <<>>
    /\ \/ ws[1] = wPercent
       \/ \E i \in 1..Len(ws) : ws[i] = wM99
       \/ ws[1] = wM30

\* C9: a structural marker line ('%' first, M99 anywhere, M30 or M02 first)
\* never gets an 'Invalid command format' error and, unless it also carries
\* an O<digits> start or an M98 P<digits> call, changes neither registry.
C9_MarkerAccepted ==
    [][ (AtLine /\ StructuralMarker(WordLines(Top)[Top.idx])) =>
          LET ws == WordLines(Top)[Top.idx]
              es == After(Top'.self.errors, Len(Top.self.errors))
          IN  /\ \A i \in 1..Len(es) : es[i].kind # "Invalid command format"
              /\ (ws[1].letter # "O" /\ \A i \in 1..Len(ws) : ws[i] # wM98) =>
                    /\ Top'.self.main_programs = Top.self.main_programs
                    /\ Top'.self.program_calls = Top.self.program_calls ]_vars

AllMessages(f) == {f.self.errors[i] : i \in 1..Len(f.self.errors)}
                  \cup {f.self.warnings[i] : i \in 1..Len(f.self.warnings)}

\* C10 as stated: a diagnostic of the main file carries at most one
\* file-origin prefix.
C10_OneLevel == \A m \in AllMessages(stack[1]) : Len(m.prefix) <= 1

\* the file names the calls of the named file may resolve to
CalleeNames(name) ==
    IF name \in DOMAIN fs /\ fs[name].readable
    THEN LET wl == Split(fs[name].content, NL)
         IN  UNION {{PossibleNames(n)[k] : n \in LineCall(wl[i]), k \in 1..6} :
                       i \in 1..Len(wl)}
    ELSE {}

\* the prefixes name a chain of files, each one called by the one before
RECURSIVE CallChain(_, _)
CallChain(name, prefix) ==
    \/ prefix = <<>>
    \/ /\ Head(prefix) \in CalleeNames(name)
       /\ CallChain(Head(prefix), Tail(prefix))

\* C10 amended: a diagnostic carries one file-origin prefix per level of
\* nesting, outermost file first: the prefixes of a diagnostic of a file
\* name a chain of files in which each is called by the one before it.
C10_PrefixPerLevel ==
    \A f \in Frames : \A m \in AllMessages(f) :
        CallChain(Basename(f.filename), m.prefix)

\* the main file holds an error of a grandchild, under two prefixes
C10_Witness ==
    /\ MainDone
    /\ \E i \in 1..Len(Top.self.errors) :
          /\ Top.self.errors[i].prefix = <<nameO200, nameO300>>
          /\ Top.self.errors[i].kind = "Invalid feed rate"
====
